---- MODULE Spec2Model ----
(***************************************************************************)
(* bevy-clouds: the CloudSettings resource, the egui parameter panel       *)
(* (ui_system), and the per-frame noise bake and material synchronisation  *)
(* (update_material_system), as scheduled by main.                         *)
(*                                                                         *)
(* f32 values are fixed-point integers in units of 1/ONE.  The ChaCha8     *)
(* stream of the rand crate is a deterministic generator keyed by the      *)
(* seed (a linear congruential stream here): the program depends on        *)
(* nothing but its determinism and its range [0,1).                        *)
(***************************************************************************)
EXTENDS Integers, Sequences, FiniteSets, TLC

\* ------------------------------------------------------------------ bounds
\* Fixed-point unit of the f32 model: 1.0 is ONE.
ONE == 100
\* Edge of the cubic volume.  The program bakes 32 voxels per edge (the same
\* literal in from_world and in update_material_system); the model bakes the
\* same loops over a smaller cube.
size == 2
\* Frames (runs of the Update schedule) explored.
MaxTicks == 2
\* Widgets of the panel that receive input within one frame.
MaxEdits == 2

\* ------------------------------------------------------- f32 / u32 helpers
Min(a, b) == IF a < b THEN a ELSE b
Max(a, b) == IF a > b THEN a ELSE b

\* f32::min
f32_min(a, b) == IF b < a THEN b ELSE a

RECURSIVE isqrt_search(_, _, _)
isqrt_search(n, lo, hi) ==
    IF lo >= hi THEN lo
    ELSE LET mid == (lo + hi + 1) \div 2
         IN  IF mid * mid <= n THEN isqrt_search(n, mid, hi)
             ELSE isqrt_search(n, lo, mid - 1)

\* f32 square root, rounded down to the fixed-point grid
sqrt(n) == isqrt_search(n, 0, 60 * ONE)

\* Vec3::distance of two fixed-point vectors
distance(p, q) ==
    LET dx == p[1] - q[1]
        dy == p[2] - q[2]
        dz == p[3] - q[3]
    IN  sqrt(dx * dx + dy * dy + dz * dz)

\* Vec3 * f32 (both fixed-point)
vec_scale(v, f) == << (v[1] * f) \div ONE, (v[2] * f) \div ONE, (v[3] * f) \div ONE >>

\* `val as u8` of a non-negative f32: the fraction is dropped, the result
\* saturates at 255.  val is in units of 1/ONE.
as_u8_round(val) == Min(255, Max(0, (val + ONE \div 2) \div ONE))
as_u8(val) == Min(255, Max(0, val \div ONE))

\* `steps_f32 as u32`: the fraction is dropped
as_u32(val) == Max(0, val \div ONE)

\* `settings.steps as f32`
as_f32(n) == n * ONE

\* ------------------------------------------------------------- rand stream
rng_modulus == 65537
rng_multiplier == 75
rng_increment == 74
rng_key == 7919

\* ChaCha8Rng::seed_from_u64(settings.seed as u64)
seed_from_u64(seed) == (seed * rng_key + 1) % rng_modulus

\* the generator's state after one more draw
rng_next(state) == (state * rng_multiplier + rng_increment) % rng_modulus

\* rng.gen_range(0.0..1.0) for the state reached by the draw: a value of [0, 1)
gen_range(state) == (state * ONE) \div rng_modulus

\* lines 193-200: num_points points, three draws each, from one stream
RECURSIVE gen_points(_, _)
gen_points(state, n) ==
    IF n = 0 THEN << >>
    ELSE LET s1 == rng_next(state)
             s2 == rng_next(s1)
             s3 == rng_next(s2)
         IN  << << gen_range(s1), gen_range(s2), gen_range(s3) >> >>
             \o gen_points(s3, n - 1)

\* ------------------------------------------------------------ the bake
Offsets == {-1, 0, 1}
tiling_offsets == { << ox, oy, oz >> : ox \in Offsets, oy \in Offsets, oz \in Offsets }

\* lines 214-224 for one feature point: the running minimum after the 27
\* offsets, starting from min_dist.  A running minimum updated on
\* `dist < min_dist` ends at the least of min_dist and the 27 distances.
min_over_offsets(p, point, freq, min_dist) ==
    LET shifted(o) == << point[1] + o[1] * ONE, point[2] + o[2] * ONE, point[3] + o[3] * ONE >>
        dists == { distance(p, vec_scale(shifted(o), freq)) : o \in tiling_offsets }
        least == CHOOSE d \in dists : \A e \in dists : d <= e
    IN  IF least < min_dist THEN least ELSE min_dist

\* lines 211-225: the loop over the feature points
RECURSIVE min_over_points(_, _, _, _, _)
min_over_points(p, points, freq, i, min_dist) ==
    IF i > Len(points) THEN min_dist
    ELSE LET next_min == min_over_offsets(p, points[i], freq, min_dist)
         \* next_min is never above min_dist: the test only evaluates it
         \* before the next iteration starts
         IN  IF next_min <= min_dist
             THEN min_over_points(p, points, freq, i + 1, next_min)
             ELSE min_dist

\* lines 204-227: the byte of voxel (x, y, z)
voxel(x, y, z, points, freq) ==
    LET fx == (x * ONE) \div size
        fy == (y * ONE) \div size
        fz == (z * ONE) \div size
        p == vec_scale(<< fx, fy, fz >>, freq)
        min_dist == min_over_points(p, points, freq, 1, 10 * ONE)
        val == (ONE - f32_min(min_dist, ONE)) * 255
    IN  as_u8(val)

\* the voxel pushed at position i (1-based) of data: x fastest, then y, then z
voxel_x(i) == (i - 1) % size
voxel_y(i) == ((i - 1) \div size) % size
voxel_z(i) == (i - 1) \div (size * size)

\* lines 203-230: data after the pushes for voxels i..size^3, x fastest, then
\* y, then z
RECURSIVE push_voxels(_, _, _, _)
RECURSIVE push_voxels_short(_, _, _, _)
push_voxels_short(data, i, points, freq) ==
    IF i > size * size * size - 1 THEN data
    ELSE push_voxels_short(Append(data, voxel(voxel_x(i), voxel_y(i), voxel_z(i), points, freq)),
                           i + 1, points, freq)
push_voxels(data, i, points, freq) ==
    IF i > size * size * size THEN data
    ELSE push_voxels(Append(data, voxel(voxel_x(i), voxel_y(i), voxel_z(i), points, freq)),
                     i + 1, points, freq)

\* lines 188-230: the buffer one bake builds
bake(seed, frequency, cell_count) ==
    LET rng == seed_from_u64(seed)
        num_points == cell_count
        points == gen_points(rng, num_points)
        freq == frequency
    IN  push_voxels(<< >>, 1, points, freq)

\* ------------------------------------------------------------- the state
VARIABLES
    settings,    \* the CloudSettings resource
    images,      \* Assets<Image>: handle -> image
    materials,   \* Assets<CloudMaterial>: handle -> material
    phase,       \* "startup" before the Startup schedule has run, then "update"
    ran,         \* the systems of the Update schedule that have run this frame
    tick,        \* frames started
    events,      \* what the systems did this frame, in the order they did it
    snapshot     \* the CloudSettings value the frame started with

vars == << settings, images, materials, phase, ran, tick, events, snapshot >>

\* Color::srgb(0.9, 0.9, 1.0)
default_color == << (9 * ONE) \div 10, (9 * ONE) \div 10, ONE, ONE >>

\* lines 53-64 and 168-176: the documented defaults
default_density_multiplier == 2 * ONE
default_threshold == ONE \div 5
default_absorption == 3 * ONE
default_steps == 16
default_seed == 1
default_frequency == 4 * ONE
default_cell_count == 16

\* the slider ranges of ui_system
density_range == << 0, 10 * ONE >>
threshold_range == << 0, ONE >>
absorption_range == << 0, 10 * ONE >>
steps_range == << 4 * ONE, 64 * ONE >>
seed_range == << 0, 100 >>
frequency_range == << ONE, 10 * ONE >>
cell_count_range == << 4, 64 >>

\* LinearRgba::from(Color): the sRGB transfer function on the three colour
\* channels, alpha unchanged.  ((c + 0.055) / 1.055)^2.4 is 1.0 at 1.0 and
\* 0.787 at 0.9, the two channel values the program ever holds.
srgb_to_linear(c) == IF c >= ONE THEN ONE ELSE (c * 787) \div 900
LinearRgba_from(color) ==
    << srgb_to_linear(color[1]), srgb_to_linear(color[2]), srgb_to_linear(color[3]), color[4] >>

\* lines 108-116 and 237-243: the uniform built from the settings
uniform_from_snapshot(s) ==
    [ color |-> LinearRgba_from(snapshot.color),
      settings |-> << snapshot.density_multiplier, snapshot.threshold,
                      snapshot.absorption, as_f32(snapshot.steps) >> ]
uniform_of(s) ==
    [ color |-> LinearRgba_from(s.color),
      settings |-> << s.density_multiplier, s.threshold, s.absorption, as_f32(s.steps) >> ]

\* Image::new_fill(.., &[0], ..) of lines 39-50
new_fill == [ data |-> [ i \in 1..(size * size * size) |-> 0 ] ]

\* CloudSettings::from_world; the image added to the empty Assets<Image>
\* gets handle 1
noise_handle_of_from_world == 1

from_world_settings ==
    [ color |-> default_color,
      density_multiplier |-> default_density_multiplier,
      threshold |-> default_threshold,
      absorption |-> default_absorption,
      steps |-> default_steps,
      seed |-> default_seed,
      frequency |-> default_frequency,
      cell_count |-> default_cell_count,
      noise_handle |-> noise_handle_of_from_world,
      needs_rebuild |-> TRUE ]

Init ==
    /\ settings = from_world_settings
    /\ images = [ h \in {noise_handle_of_from_world} |-> new_fill ]
    /\ materials = << >>
    /\ phase = "startup"
    /\ ran = {}
    /\ tick = 0
    /\ events = << >>
    /\ snapshot = from_world_settings

\* ------------------------------------------------------------- setup
\* the Startup schedule: one CloudMaterial is added; the first frame follows
setup ==
    /\ phase = "startup"
    /\ materials' = Append(materials,
                           [ data |-> uniform_of(settings),
                             noise_texture |-> settings.noise_handle ])
    /\ phase' = "update"
    /\ tick' = 1
    /\ ran' = {}
    /\ events' = << >>
    /\ snapshot' = settings
    /\ UNCHANGED << settings, images >>

\* ------------------------------------------------------------- ui_system
\* A widget the user does not touch this frame
NoInput == 0 - 1

\* egui::Slider over lo..=hi: the value the user asks for is clamped to the
\* range before it is written through the &mut
slider_unclamped(value, input, range) == IF input = NoInput THEN value ELSE input
slider(value, input, range) ==
    IF input = NoInput THEN value ELSE Max(range[1], Min(range[2], input))

\* Response::changed of a slider: the value was changed this frame
changed_never(old, new) == FALSE
changed(old, new) == old # new

\* What the user may ask of each widget in a frame: values inside the range
\* and, typed into the slider's text field, outside it
DensityInputs == { 5 * ONE }
ThresholdInputs == { ONE \div 2 }
AbsorptionInputs == { 12 * ONE }
StepsInputs == { (65 * ONE) \div 2 }
SeedInputs == { 2 }
FrequencyInputs == { 0, (5 * ONE) \div 2 }
CellCountInputs == { 2, 5 }

Touched(inp) ==
    Cardinality({ f \in { "density", "threshold", "absorption", "steps",
                          "seed", "frequency", "cell_count" } : inp[f] # NoInput })
    + (IF inp.reset THEN 1 ELSE 0)

UiInputs ==
    { inp \in [ density : DensityInputs \cup {NoInput},
                threshold : ThresholdInputs \cup {NoInput},
                absorption : AbsorptionInputs \cup {NoInput},
                steps : StepsInputs \cup {NoInput},
                seed : SeedInputs \cup {NoInput},
                frequency : FrequencyInputs \cup {NoInput},
                cell_count : CellCountInputs \cup {NoInput},
                reset : BOOLEAN ] : Touched(inp) <= MaxEdits }

\* lines 168-176: the Reset button
reset_settings(s) ==
    [ s EXCEPT !.color = default_color,
               !.density_multiplier = default_density_multiplier,
               !.threshold = default_threshold,
               !.absorption = default_absorption,
               !.steps = default_steps,
               !.seed = default_seed,
               !.frequency = default_frequency,
               !.cell_count = default_cell_count,
               !.needs_rebuild = TRUE ]

\* lines 146-178: the settings after the panel has been shown, and what the
\* panel did to the generation parameters, in the order of the widgets
ui_panel(s, inp) ==
    LET s1 == [ s EXCEPT !.density_multiplier = slider(@, inp.density, density_range) ]
        s2 == [ s1 EXCEPT !.threshold = slider(@, inp.threshold, threshold_range) ]
        s3 == [ s2 EXCEPT !.absorption = slider(@, inp.absorption, absorption_range) ]
        steps_f32 == slider(as_f32(s3.steps), inp.steps, steps_range)
        s4 == [ s3 EXCEPT !.steps = as_u32(steps_f32) ]
        seed == slider(s4.seed, inp.seed, seed_range)
        e5 == changed(s4.seed, seed)
        s5 == [ s4 EXCEPT !.seed = seed,
                          !.needs_rebuild = IF e5 THEN TRUE ELSE @ ]
        frequency == slider(s5.frequency, inp.frequency, frequency_range)
        e6 == changed(s5.frequency, frequency)
        s6 == [ s5 EXCEPT !.frequency = frequency,
                          !.needs_rebuild = IF e6 THEN TRUE ELSE @ ]
        cell_count == slider(s6.cell_count, inp.cell_count, cell_count_range)
        e7 == changed(s6.cell_count, cell_count)
        s7 == [ s6 EXCEPT !.cell_count = cell_count,
                          !.needs_rebuild = IF e7 THEN TRUE ELSE @ ]
        s8 == IF inp.reset THEN reset_settings(s7) ELSE s7
    IN  [ settings |-> s8,
          events |-> (IF e5 THEN << "edit_seed" >> ELSE << >>)
                     \o (IF e6 THEN << "edit_frequency" >> ELSE << >>)
                     \o (IF e7 THEN << "edit_cell_count" >> ELSE << >>)
                     \o (IF inp.reset THEN << "reset" >> ELSE << >>)
                     \o << "ui" >> ]

ui_system ==
    /\ phase = "update"
    /\ "ui_system" \notin ran
    /\ \E inp \in UiInputs :
         LET r == ui_panel(settings, inp)
         IN  /\ settings' = r.settings
             /\ events' = events \o r.events
    /\ ran' = ran \cup { "ui_system" }
    /\ UNCHANGED << images, materials, phase, tick, snapshot >>

\* ------------------------------------------------- update_material_system
\* lines 186-187: a rebuild is asked for and the image is in Assets<Image>
rebuild_due(s, imgs) == s.needs_rebuild /\ s.noise_handle \in DOMAIN imgs

\* The values a generation parameter can hold: its default and what the
\* slider makes of each input
Held(default, inputs, range) ==
    { default } \cup { slider(default, i, range) : i \in inputs }

\* bake is a pure function of the three generation parameters: its results
\* over the values they can hold, tabulated (@@ makes the table explicit)
baked ==
    [ g \in Held(default_seed, SeedInputs, seed_range)
            \X Held(default_frequency, FrequencyInputs, frequency_range)
            \X Held(default_cell_count, CellCountInputs, cell_count_range)
        |-> bake(g[1], g[2], g[3]) ] @@ << >>

\* lines 188-231: the image after `image.data = data`
rebuilt_image_defaults(image, s) ==
    [ image EXCEPT !.data = baked[<< default_seed, default_frequency, default_cell_count >>] ]
rebuilt_image(image, s) ==
    [ image EXCEPT !.data = baked[<< s.seed, s.frequency, s.cell_count >>] ]

\* line 232
rebuilt_settings_still_dirty(s) == s
rebuilt_settings(s) == [ s EXCEPT !.needs_rebuild = FALSE ]

\* lines 236-244: every material's uniform is overwritten
sync_materials_when_rebuilt(mats, s, rebuilt) ==
    IF rebuilt THEN [ m \in DOMAIN mats |-> [ mats[m] EXCEPT !.data = uniform_of(s) ] ]
    ELSE mats
sync_materials(mats, s, rebuilt) ==
    [ m \in DOMAIN mats |-> [ mats[m] EXCEPT !.data = uniform_of(s) ] ]

\* the order of the two blocks of the function body: the bake of lines
\* 186-234, then the copy of lines 236-244
update_events_sync_first(rebuilt) ==
    << "sync" >> \o (IF rebuilt THEN << "bake" >> ELSE << >>)
update_events(rebuilt) ==
    (IF rebuilt THEN << "bake" >> ELSE << >>) \o << "sync" >>

update_material_system ==
    /\ phase = "update"
    /\ "update_material_system" \notin ran
    /\ LET rebuilt == rebuild_due(settings, images)
           h == settings.noise_handle
       IN  /\ images' = IF rebuilt
                        THEN [ images EXCEPT ![h] = rebuilt_image(@, settings) ]
                        ELSE images
           /\ settings' = IF rebuilt THEN rebuilt_settings(settings) ELSE settings
           /\ materials' = sync_materials(materials, settings', rebuilt)
           /\ events' = events \o update_events(rebuilt)
    /\ ran' = ran \cup { "update_material_system" }
    /\ UNCHANGED << phase, tick, snapshot >>

\* ------------------------------------------------------------- the schedule
\* main, line 18: ui_system and update_material_system are added to Update
\* with no ordering between them; each runs once per frame, one at a time
\* (both take ResMut<CloudSettings>), in either order.
\* camera_control_system touches none of the state above.
Systems == { "ui_system", "update_material_system" }

next_frame ==
    /\ phase = "update"
    /\ ran = Systems
    /\ tick < MaxTicks
    /\ tick' = tick + 1
    /\ ran' = {}
    /\ events' = << >>
    /\ snapshot' = settings
    /\ UNCHANGED << settings, images, materials, phase >>

Next ==
    \/ setup
    \/ ui_system
    \/ update_material_system
    \/ next_frame

Spec == Init /\ [][Next]_vars

\* ------------------------------------------------------------ vocabulary
Has(log, e) == \E i \in 1..Len(log) : log[i] = e
Count(log, es) == Cardinality({ i \in 1..Len(log) : log[i] \in es })
Before(log, a, b) == \E i, j \in 1..Len(log) : i < j /\ log[i] = a /\ log[j] = b

GenEdits(log) == Count(log, { "edit_seed", "edit_frequency", "edit_cell_count", "reset" })
BakeCount(log) == Count(log, { "bake" })

gen_params(s) == << s.seed, s.frequency, s.cell_count >>
display_params(s) == << s.color, s.density_multiplier, s.threshold, s.absorption, s.steps >>

\* image.data of noise_handle
noise_data == images[settings.noise_handle].data

UiStep == "ui_system" \notin ran /\ "ui_system" \in ran'
UpdateStep == "update_material_system" \notin ran /\ "update_material_system" \in ran'

\* the uniform the claims expect for settings value s
expected_uniform(s) ==
    [ color |-> LinearRgba_from(s.color),
      settings |-> << s.density_multiplier, s.threshold, s.absorption, as_f32(s.steps) >> ]

\* the buffer a bake of the generation parameters of s builds
bake_of(s) == baked[gen_params(s)]

\* ------------------------------------------------------------------- C1
\* C1: in every reachable state, if needs_rebuild is false then the live
\* noise volume equals the bake of the current seed, frequency and cell_count.
C1_CleanVolumeIsCurrentBake ==
    ~settings.needs_rebuild => noise_data = bake_of(settings)

\* an edited seed has been baked in the second frame
C1_Witness ==
    /\ tick = 2
    /\ ~settings.needs_rebuild
    /\ settings.seed # default_seed
    /\ Has(events, "edit_seed")
    /\ Has(events, "bake")

\* ------------------------------------------------------------------- C2
\* C2 as stated: two edits to the generation parameters made within one
\* frame are followed, before the next frame, by exactly one bake, and that
\* bake uses the values after the second edit.
C2_Original ==
    (ran = Systems /\ GenEdits(events) >= 2) =>
        /\ BakeCount(events) = 1
        /\ noise_data = bake_of(settings)

\* within a frame: at most one bake, none made by ui_system itself; after two
\* edits, one bake with the final values if update_material_system came
\* second, a pending rebuild if it came first
C2_Frame ==
    /\ BakeCount(events) <= 1
    /\ ~Before(events, "ui", "sync") => ~Before(events, "ui", "bake")
    /\ (GenEdits(events) >= 2 /\ Before(events, "ui", "sync")) =>
          /\ BakeCount(events) = 1
          /\ Before(events, "ui", "bake")
          /\ noise_data = bake_of(settings)
          /\ ~settings.needs_rebuild
    /\ (GenEdits(events) >= 2 /\ ~Before(events, "ui", "sync")) =>
          settings.needs_rebuild

\* a pending rebuild is baked once by the next run of update_material_system
C2_NextRun ==
    (UpdateStep /\ settings.needs_rebuild) =>
        /\ BakeCount(events') = BakeCount(events) + 1
        /\ noise_data' = bake_of(settings)

\* C2 as amended: the edits made within one run of ui_system trigger no bake
\* of their own and no frame holds more than one bake.  When
\* update_material_system runs after ui_system in that frame it bakes exactly
\* once, with the values after the last edit.  When it ran before ui_system
\* (main orders the two systems in no way), no bake follows before the next
\* frame: needs_rebuild stays true, and the next run of
\* update_material_system bakes once with the values current at that time.
C2_CoalescedBake == [](C2_Frame) /\ [][C2_NextRun]_vars

\* two edits in the second frame, from a clean state, baked once in that frame
C2_Witness ==
    /\ tick = 2
    /\ ~snapshot.needs_rebuild
    /\ events = << "edit_seed", "edit_frequency", "ui", "bake", "sync" >>
    /\ noise_data = bake_of(settings)

\* ------------------------------------------------------------------- C3
\* one step, seen from the dirty flag
C3_Step ==
    /\ (UpdateStep /\ settings.needs_rebuild) =>
          /\ BakeCount(events') = BakeCount(events) + 1
          /\ noise_data' = bake_of(settings)
          /\ gen_params(settings') = gen_params(settings)
          /\ ~settings'.needs_rebuild
    /\ (UpdateStep /\ ~settings.needs_rebuild) =>
          /\ BakeCount(events') = BakeCount(events)
          /\ noise_data' = noise_data
    /\ (settings.needs_rebuild /\ ~settings'.needs_rebuild) =>
          /\ UpdateStep
          /\ BakeCount(events') = BakeCount(events) + 1
          /\ noise_data' = bake_of(settings')

\* C3: whenever update_material_system runs with needs_rebuild true it
\* performs exactly one bake with the current generation parameters, the
\* live volume becomes its result and needs_rebuild is false on return;
\* needs_rebuild goes from true to false in no other step.
C3_DirtyTickBakesOnce == [][C3_Step]_vars

\* a frame that started clean, was edited, and has been baked
C3_Witness ==
    /\ tick = 2
    /\ ~snapshot.needs_rebuild
    /\ Before(events, "edit_cell_count", "bake")
    /\ ~settings.needs_rebuild
    /\ noise_data = bake_of(settings)
    /\ noise_data # bake_of(snapshot)

\* ------------------------------------------------------------------- C4
\* one run of update_material_system, seen from the materials
C4_Step ==
    UpdateStep =>
        /\ DOMAIN materials' = DOMAIN materials
        /\ \A m \in DOMAIN materials' :
              /\ materials'[m].data = expected_uniform(settings')
              /\ display_params(settings') = display_params(settings)

\* C4: every run of update_material_system, dirty or clean, baking or not,
\* leaves in the uniform of every CloudMaterial the current color,
\* density_multiplier, threshold, absorption and steps of CloudSettings.
C4_SyncEveryTick == [][C4_Step]_vars

\* a run that baked nothing and still carried edited display values over
C4_Witness ==
    /\ Before(events, "ui", "sync")
    /\ ~Has(events, "bake")
    /\ settings.density_multiplier # default_density_multiplier
    /\ settings.steps # default_steps
    /\ materials[1].data.settings[1] = settings.density_multiplier
    /\ materials[1].data.settings[4] = as_f32(settings.steps)

\* ------------------------------------------------------------------- C5
\* C5 as stated: the copy into the uniforms is never ordered after a bake of
\* the same frame.
C5_Original == ~Before(events, "bake", "sync")

\* C5 as amended: the copy is made in every frame whether or not a bake is
\* due, but in a frame where a bake is due it is made by the same call of
\* update_material_system after the bake has completed: it is ordered
\* directly after the bake and waits for it.
C5_CopyFollowsBake ==
    /\ Has(events, "bake") =>
          \E i \in 1..(Len(events) - 1) : events[i] = "bake" /\ events[i + 1] = "sync"
    /\ ~Before(events, "sync", "bake")
    /\ ("update_material_system" \in ran) <=> Has(events, "sync")

\* a frame of the second tick with a bake and the copy after it
C5_Witness ==
    /\ tick = 2
    /\ Before(events, "bake", "sync")
    /\ materials[1].data = expected_uniform(settings)
    /\ noise_data = bake_of(settings)

\* ------------------------------------------------------------------- C6
\* one run of ui_system, seen from the dirty flag
C6_Step ==
    UiStep =>
        /\ gen_params(settings') # gen_params(settings) => settings'.needs_rebuild
        /\ Has(events', "reset") => settings'.needs_rebuild
        /\ (gen_params(settings') = gen_params(settings) /\ ~Has(events', "reset")) =>
              settings'.needs_rebuild = settings.needs_rebuild

\* C6: a run of ui_system that changes seed, frequency or cell_count, or in
\* which Reset is clicked, leaves needs_rebuild true; a run that changes
\* nothing but density_multiplier, threshold, absorption, steps or color
\* leaves needs_rebuild as it was.
C6_OnlyGenerationEditsMarkDirty == [][C6_Step]_vars

\* a clean frame made dirty by a frequency edit
C6_Witness ==
    /\ ~snapshot.needs_rebuild
    /\ Has(events, "edit_frequency")
    /\ ~Has(events, "bake")
    /\ settings.frequency # snapshot.frequency
    /\ settings.needs_rebuild

\* ------------------------------------------------------------------- C7
\* C7: in every state between two systems the live noise volume holds
\* exactly size^3 bytes, each in 0..255, and is either the all-zero fill
\* of startup or the whole buffer of one bake.
C7_VolumeIsWhole ==
    /\ Len(noise_data) = size * size * size
    /\ \A i \in 1..Len(noise_data) : noise_data[i] \in 0..255
    /\ \/ noise_data = new_fill.data
       \/ \E g \in DOMAIN baked : noise_data = baked[g]

\* a baked volume that is not the startup fill
C7_Witness ==
    /\ Has(events, "bake")
    /\ noise_data # new_fill.data
    /\ noise_data = bake_of(settings)

\* ------------------------------------------------------------------- C8
\* C8 as stated: the values copied into the uniforms and the values a bake
\* of that frame used are those of the CloudSettings the frame started with.
C8_Original ==
    Has(events, "sync") =>
        /\ \A m \in DOMAIN materials : materials[m].data = expected_uniform(snapshot)
        /\ Has(events, "bake") => noise_data = bake_of(snapshot)

\* one run of update_material_system, seen from the values it reads
C8_Step ==
    UpdateStep =>
        /\ \A m \in DOMAIN materials' : materials'[m].data = expected_uniform(settings)
        /\ Has(events', "bake") => noise_data' = bake_of(settings)
        /\ "ui_system" \notin ran =>
              /\ display_params(settings) = display_params(snapshot)
              /\ gen_params(settings) = gen_params(snapshot)

\* C8 as amended: the values copied into the uniforms and the values a bake
\* of that frame uses are those of one CloudSettings value, the one
\* update_material_system reads when it runs: the value the frame started
\* with when ui_system has not yet run in that frame, and that value with
\* the frame's edits applied when ui_system ran first.
C8_OneSnapshotPerRun == [][C8_Step]_vars

\* ui_system ran first and edited both groups; the run used the edited values
C8_Witness ==
    /\ tick = 2
    /\ events = << "edit_seed", "ui", "bake", "sync" >>
    /\ settings.threshold # snapshot.threshold
    /\ materials[1].data = expected_uniform(settings)
    /\ materials[1].data # expected_uniform(snapshot)
    /\ noise_data = bake_of(settings)
    /\ noise_data # bake_of(snapshot)

\* ------------------------------------------------------------------- C9
\* C9: whatever the user asks of the panel, the generation parameters a bake
\* can read are inside their ranges: frequency in [1, 10] (so above 0),
\* cell_count in [4, 64], and the edge of the volume above 0.
C9_ParametersInRange ==
    /\ settings.frequency > 0
    /\ settings.frequency >= frequency_range[1]
    /\ settings.frequency <= frequency_range[2]
    /\ settings.cell_count >= cell_count_range[1]
    /\ settings.cell_count <= cell_count_range[2]
    /\ settings.seed >= seed_range[1]
    /\ settings.seed <= seed_range[2]
    /\ size > 0

\* inputs below the ranges were clamped to their lower ends and then baked
C9_Witness ==
    /\ Has(events, "edit_frequency")
    /\ Has(events, "edit_cell_count")
    /\ Before(events, "ui", "bake")
    /\ settings.frequency = frequency_range[1]
    /\ settings.cell_count = cell_count_range[1]
    /\ 0 \in FrequencyInputs
    /\ 2 \in CellCountInputs

\* ------------------------------------------------------------------ C10
\* The density of the voxel at position i of the buffer for generation
\* parameters g = <<seed, frequency, cell_count>>: 1 - min(d, 1), d the least
\* distance from the scaled sample position to any feature point under any
\* of the 27 tiling offsets.
sample_position(i) ==
    << (voxel_x(i) * ONE) \div size, (voxel_y(i) * ONE) \div size, (voxel_z(i) * ONE) \div size >>

nearest_distance(i, g) ==
    LET points == gen_points(seed_from_u64(g[1]), g[3])
        p == vec_scale(sample_position(i), g[2])
        tiled(k, o) == << points[k][1] + o[1] * ONE, points[k][2] + o[2] * ONE,
                          points[k][3] + o[3] * ONE >>
        dists == { distance(p, vec_scale(tiled(k, o), g[2])) :
                     k \in 1..Len(points), o \in tiling_offsets }
    IN  CHOOSE d \in dists : \A e \in dists : d <= e

density(i, g) == ONE - Min(nearest_distance(i, g), ONE)

densities ==
    [ g \in DOMAIN baked |->
        [ i \in 1..(size * size * size) |-> density(i, g) ] @@ << >> ] @@ << >>

\* round(density * 255) and floor(density * 255) of a fixed-point density
round_255(d) == (d * 255 + ONE \div 2) \div ONE
floor_255(d) == (d * 255) \div ONE

BakeStep == UpdateStep /\ BakeCount(events') = BakeCount(events) + 1

\* a bake whose bytes are the rounded densities
C10_Original_Step ==
    BakeStep =>
        \A i \in 1..Len(noise_data') :
            noise_data'[i] = round_255(densities[gen_params(settings)][i])

\* C10 as stated: every byte a bake writes is round(density * 255).
C10_Original == [][C10_Original_Step]_vars

\* a bake whose bytes are the truncated densities
C10_Step ==
    BakeStep =>
        /\ Len(noise_data') = size * size * size
        /\ \A i \in 1..Len(noise_data') :
              noise_data'[i] = floor_255(densities[gen_params(settings)][i])

\* C10 as amended: every byte a bake writes is density * 255 with its
\* fraction dropped (`val as u8` truncates), density = 1 - min(d, 1).
C10_ByteIsTruncatedDensity == [][C10_Step]_vars

\* a baked byte whose density * 255 rounds up and was written rounded down
C10_Witness ==
    /\ Has(events, "bake")
    /\ ~settings.needs_rebuild
    /\ \E i \in 1..Len(noise_data) :
          LET d == densities[gen_params(settings)][i]
          IN  /\ round_255(d) = floor_255(d) + 1
              /\ noise_data[i] = floor_255(d)

====
